---- MODULE Spec2Model ----
\* fetch_pubmed_data (src/cli.py, lines 62-220): one esearch request, one efetch
\* request, and the per-record extraction loop that builds the result rows.
\*
\* Text is a sequence of one-character strings.  A Python value that may be
\* None is a record [isNone, s].  An XML element is a record [tag, text, kids]
\* read with the ElementTree operations the code calls.
EXTENDS Integers, Sequences, FiniteSets, TLC

\* ------------------------------------------------------------------ bounds
\* Longest fetch response (records), longest author list of the detailed
\* record, longest identifier list of the search response.
MaxRecords == 2

MaxAuthors == 2

MaxIds == 2

\* ------------------------------------------------------------- characters
UpperCase ==
    <<"A", "B", "C", "D", "E", "F", "G", "H", "I", "J", "K", "L", "M",
      "N", "O", "P", "Q", "R", "S", "T", "U", "V", "W", "X", "Y", "Z">>

LowerCase ==
    <<"a", "b", "c", "d", "e", "f", "g", "h", "i", "j", "k", "l", "m",
      "n", "o", "p", "q", "r", "s", "t", "u", "v", "w", "x", "y", "z">>

Digits ==
    <<"0", "1", "2", "3", "4", "5", "6", "7", "8", "9">>

\* The ASCII characters of the modelled texts, in code-point order: Python compares str values code point by code
\* point, so the position in this sequence orders two characters as Python
\* orders them.
Ascii ==
    <<" ", "%", "+", ",", "-", ".", "/",
      "0", "1", "2", "3", "4", "5", "6", "7", "8", "9", ":", ";", "@",
      "A", "B", "C", "D", "E", "F", "G", "H", "I", "J", "K", "L", "M",
      "N", "O", "P", "Q", "R", "S", "T", "U", "V", "W", "X", "Y", "Z", "_",
      "a", "b", "c", "d", "e", "f", "g", "h", "i", "j", "k", "l", "m",
      "n", "o", "p", "q", "r", "s", "t", "u", "v", "w", "x", "y", "z">>

Range(seq) == {seq[i] : i \in 1..Len(seq)}

IndexOf(seq, c) == CHOOSE i \in 1..Len(seq) : seq[i] = c

Chars == Range(Ascii)

Uppers == Range(UpperCase)

Letters == Range(UpperCase) \cup Range(LowerCase)

OrdOf == [c \in Chars |-> IndexOf(Ascii, c)]

Ord(c) == OrdOf[c]

IsAlpha(c) == c \in Letters

IsSpace(c) == c \in {" ", "\t", "\n", "\r"}

\* str.lower() on ASCII text
LowerOf ==
    [c \in Chars |-> IF c \in Uppers THEN LowerCase[IndexOf(UpperCase, c)] ELSE c]

LowerChar(c) == LowerOf[c]

Lower(s) == [i \in 1..Len(s) |-> LowerChar(s[i])]

\* `sub in s` for two str values
Contains(s, sub) ==
    \E i \in 0..(Len(s) - Len(sub)) : SubSeq(s, i + 1, i + Len(sub)) = sub

\* str.strip(): leading and trailing whitespace removed
Strip(s) ==
    LET keep == {i \in 1..Len(s) : ~IsSpace(s[i])}
    IN  IF keep = {} THEN <<>>
        ELSE SubSeq(s, CHOOSE i \in keep : \A j \in keep : i <= j,
                       CHOOSE i \in keep : \A j \in keep : j <= i)

\* s < t for two str values (code-point lexicographic order)
StrLess(s, t) ==
    \E i \in 1..(Len(t)) :
        /\ \A j \in 1..(i - 1) : j <= Len(s) /\ s[j] = t[j]
        /\ \/ i = Len(s) + 1
           \/ i <= Len(s) /\ Ord(s[i]) < Ord(t[i])

\* the least str of a non-empty set
MinStr(S) == CHOOSE x \in S : \A y \in S \ {x} : StrLess(x, y)

\* sorted(list(set(xs))): duplicates dropped, ascending
RECURSIVE SortSet(_)
SortFrom(m, S) == <<m>> \o SortSet(S \ {m})

SortSet(S) == IF S = {} THEN <<>> ELSE SortFrom(MinStr(S), S)

SortedSet(xs) == SortSet(Range(xs))

\* sep.join(xs)
RECURSIVE Join(_, _)
Join(sep, xs) ==
    IF xs = <<>> THEN <<>>
    ELSE IF Len(xs) = 1 THEN xs[1]
    ELSE xs[1] \o sep \o Join(sep, Tail(xs))

\* ---------------------------------------------------------- Python values
PyNone == [isNone |-> TRUE, s |-> <<>>]

PyStr(s) == [isNone |-> FALSE, s |-> s]

\* truth value of None or a str
Truthy(v) == ~v.isNone /\ v.s # <<>>

\* `v or d`
OrElse(v, d) == IF Truthy(v) THEN v ELSE d

NA == <<"N", "/", "A">>

SepText == <<";", " ">>

\* ------------------------------------------------------------ ElementTree
Elem(tag, text, kids) == [tag |-> tag, text |-> text, kids |-> kids]

\* Element.findall(tag): the children with that tag, in document order
Children(e, tag) == SelectSeq(e.kids, LAMBDA k : k.tag = tag)

\* Element.iter() without the element itself: descendants in document order
RECURSIVE DescSeq(_)
DescSeq(ks) ==
    IF ks = <<>> THEN <<>>
    ELSE <<Head(ks)>> \o DescSeq(Head(ks).kids) \o DescSeq(Tail(ks))

\* Element.findall of .//tag
FindAllDeep(e, tag) == SelectSeq(DescSeq(e.kids), LAMBDA k : k.tag = tag)

\* one more /tag step of a path, applied to the elements found so far
RECURSIVE PathStep(_, _)
PathStep(es, tag) ==
    IF es = <<>> THEN <<>>
    ELSE Children(Head(es), tag) \o PathStep(Tail(es), tag)

\* findtext over the matches of a path: the text of the first match (the empty
\* string when it has none), the default when nothing matches
FindText(matches, default) ==
    IF matches = <<>> THEN default
    ELSE IF Head(matches).text.isNone THEN PyStr(<<>>)
    ELSE Head(matches).text

\* bool(element): an element is true iff it has children
ElemBool(e) == Len(e.kids) > 0

\* ------------------------------------------------------------------ regex
\* re.search of the e-mail pattern: one or more of [a-zA-Z0-9._%+-], an @,
\* one or more of [a-zA-Z0-9.-], a dot, two or more letters
LocalChars == Letters \cup Range(Digits) \cup {".", "_", "%", "+", "-"}

DomainChars == Letters \cup Range(Digits) \cup {".", "-"}

\* last index of the longest run of characters of the class Cs that starts at i
\* (i - 1 when s[i] is not in Cs)
RunEnd(s, i, Cs) ==
    CHOOSE j \in (i - 1)..Len(s) :
        /\ \A k \in i..j : s[k] \in Cs
        /\ j = Len(s) \/ s[j + 1] \notin Cs

\* the greatest element of a non-empty set of integers
MaxOf(S) == CHOOSE j \in S : \A k \in S : k <= j

MinOf(S) == CHOOSE j \in S : \A k \in S : j <= k

\* the dots at which the domain part may end: the domain before the dot is
\* not empty and two letters follow it
DomainDots(s, at, dend) ==
    {p \in (at + 2)..dend :
        /\ s[p] = "."
        /\ p + 2 <= Len(s)
        /\ IsAlpha(s[p + 1]) /\ IsAlpha(s[p + 2])}

\* greedy matching: the last such dot, then every letter after it
TldEnd(s, dots) ==
    IF dots = {} THEN 0 ELSE RunEnd(s, MaxOf(dots) + 1, Letters)

\* the local part starts at i and ends right before index at
MatchFrom(s, i, at) ==
    IF at = i \/ at > Len(s) THEN 0
    ELSE IF s[at] # "@" THEN 0
    ELSE TldEnd(s, DomainDots(s, at, RunEnd(s, at + 1, DomainChars)))

\* end index of the match that starts at i, 0 when none starts there
MatchEnd(s, i) == MatchFrom(s, i, RunEnd(s, i, LocalChars) + 1)

MatchText(s, i) == <<SubSeq(s, i, MatchEnd(s, i))>>

FirstMatch(s, starts) == IF starts = {} THEN <<>> ELSE MatchText(s, MinOf(starts))

\* the leftmost match as <<text>>, or <<>> when re.search returns None
ReSearchEmail(s) == FirstMatch(s, {i \in 1..Len(s) : MatchEnd(s, i) > 0})

\* ------------------------------------------------------------- the program
PHARMA_KEYWORDS ==
    << <<"p", "h", "a", "r", "m", "a">>,
       <<"b", "i", "o", "t", "e", "c", "h">>,
       <<"t", "h", "e", "r", "a", "p", "e", "u", "t", "i", "c", "s">>,
       <<"g", "e", "n", "o", "m", "i", "c", "s">>,
       <<"d", "i", "a", "g", "n", "o", "s", "t", "i", "c", "s">>,
       <<"i", "n", "c">>,
       <<"c", "o", "r", "p">>,
       <<"l", "t", "d">>,
       <<"g", "m", "b", "h">>,
       <<"s", ".", "a", ".">>,
       <<"s", ".", "r", ".", "l">>,
       <<"p", "h", "a", "r", "m", "a", "c", "e", "u", "t", "i", "c", "a", "l">>,
       <<"b", "i", "o", "t", "e", "c", "h", "n", "o", "l", "o", "g", "y">> >>

VARIABLES
    net,          \* what the two endpoints answer in this run
    year_filter,  \* the argument: None, or a list of year strings
    pc,           \* position of the call in fetch_pubmed_data
    calls,        \* the requests issued so far, in order
    id_list,      \* texts of the Id elements of the search response
    fetch_ids,    \* fetch_params[id], the comma-joined identifiers
    records,      \* the PubmedArticle elements of the fetch response
    idx,          \* 1-based position of the for loop in records
    results,      \* the rows collected so far
    retval        \* the returned list, once pc is returned

vars == <<net, year_filter, pc, calls, id_list, fetch_ids, records, idx,
          results, retval>>

\* raise_for_status raises for a 4xx or 5xx response
RaisesForStatus(status) == status >= 400 /\ status < 600

\* requests.get followed by raise_for_status: does the except clause run
RequestFails(resp) == resp.exc \/ RaisesForStatus(resp.status)

\* the status check after a request that raised nothing
StatusRejected(resp) == resp.status # 200

\* id_list = [i.text for i in root.findall(.//Id)]
IdTexts(root) ==
    LET ids == FindAllDeep(root, "Id")
    IN  [i \in 1..Len(ids) |-> ids[i].text]

\* the check of line 108 left out
NoIdsIgnored(ids) == FALSE

\* if not id_list
NoIds(ids) == ids = <<>>

\* str.join raises TypeError on an item that is not a str
JoinRaises(ids) == \E i \in 1..Len(ids) : ids[i].isNone

\* ",".join(id_list)
JoinIds(ids) == Join(<<",">>, [i \in 1..Len(ids) |-> ids[i].s])

\* ---- the loop body, lines 152-209
Title(record) ==
    OrElse(FindText(FindAllDeep(record, "ArticleTitle"), PyNone), PyStr(NA))

\* line 155, given the result of record.find of .//PubDate
YearOf(pub_date_element) ==
    IF pub_date_element # <<>> /\ ElemBool(Head(pub_date_element))
    THEN FindText(Children(Head(pub_date_element), "Year"), PyNone)
    ELSE PyStr(NA)

PubYear(record) == YearOf(FindAllDeep(record, "PubDate"))

Pmid(record) ==
    OrElse(FindText(FindAllDeep(record, "PMID"), PyNone), PyStr(NA))

\* an empty list taken for a filter: only None switches the filter off
YearSkipsUnlessNone(yf, pub_year) ==
    /\ ~yf.isNone
    /\ \A i \in 1..Len(yf.items) : yf.items[i] # pub_year

\* if year_filter and pub_year not in year_filter: continue
YearSkips(yf, pub_year) ==
    /\ ~yf.isNone
    /\ yf.items # <<>>
    /\ \A i \in 1..Len(yf.items) : yf.items[i] # pub_year

\* line 170, given the result of author.find of AffiliationInfo
AffilOf(affil_info) ==
    IF affil_info # <<>> /\ ElemBool(Head(affil_info))
    THEN FindText(Children(Head(affil_info), "Affiliation"), PyNone)
    ELSE PyNone

\* affil of one author, lines 169-170
Affil(author) == AffilOf(Children(author, "AffiliationInfo"))

\* the condition of line 172
IsPharma(affil) ==
    /\ Truthy(affil)
    /\ \E i \in 1..Len(PHARMA_KEYWORDS) :
           Contains(Lower(affil.s), Lower(PHARMA_KEYWORDS[i]))

\* line 173
AuthorName(author) ==
    Strip(FindText(Children(author, "ForeName"), PyStr(<<>>)).s
          \o <<" ">>
          \o FindText(Children(author, "LastName"), PyStr(<<>>)).s)

\* lines 180-181 and 190-191: a match replaces the e-mail found so far
EmailOr(match, email) == IF match # <<>> THEN PyStr(match[1]) ELSE email

\* the first e-mail found in the author loop kept
EmailAfterFirst(email, affil) ==
    IF email # PyStr(NA) THEN email ELSE EmailOr(ReSearchEmail(affil.s), email)

\* lines 179-181: the e-mail after one classified author
EmailAfter(email, affil) == EmailOr(ReSearchEmail(affil.s), email)

\* a name appended only when it is not in the list yet
NamesAfterUnique(names, name) ==
    IF name # <<>> /\ name \notin Range(names) THEN Append(names, name) ELSE names

\* lines 174-175
NamesAfter(names, name) == IF name # <<>> THEN Append(names, name) ELSE names

\* lines 172-181 for an author whose affil is known
Classify(acc, author, affil) ==
    IF IsPharma(affil)
    THEN [names  |-> NamesAfter(acc.names, AuthorName(author)),
          affils |-> Append(acc.affils, affil.s),
          email  |-> EmailAfter(acc.email, affil)]
    ELSE acc

\* one iteration of the author loop, lines 169-181
AuthorStep(acc, author) == Classify(acc, author, Affil(author))

\* for author in authors_info, lines 168-181
AuthorLoop(acc, authors) ==
    LET after[i \in 0..Len(authors)] ==
            IF i = 0 THEN acc ELSE AuthorStep(after[i - 1], authors[i])
    IN  after[Len(authors)]

\* lines 188-191; re.search on a text that is None raises TypeError, which
\* the except of line 193 swallows
ProbeEmail(email_element, email) ==
    IF email_element = <<>> THEN email
    ELSE IF Head(email_element).text.isNone THEN email
    ELSE EmailOr(ReSearchEmail(Head(email_element).text.s), email)

\* lines 186-187, given the result of record.find of the CorrespondingAuthor path
ProbeCorr(corr, email) ==
    IF corr = <<>> THEN email
    ELSE ProbeEmail(PathStep(Children(Head(corr), "AffiliationInfo"),
                             "Affiliation"), email)

\* lines 184-196: the CorrespondingAuthor probe
CorrespondingEmail(record, email) ==
    ProbeCorr(PathStep(PathStep(FindAllDeep(record, "AuthorList"), "Author"),
                       "CorrespondingAuthor"), email)

\* the list joined as collected: neither sorted nor deduplicated
AffiliationListAsCollected(company_affiliations) == company_affiliations

\* line 205
AffiliationList(company_affiliations) == SortedSet(company_affiliations)

\* the row kept whenever an affiliation was collected
RowWantedByAffiliation(names, affils) == affils # <<>>

\* if non_academic_authors, line 199
RowWanted(names, affils) == names # <<>>

\* the row put in front of the list
PrependRow(rs, row) == <<row>> \o rs

\* results.append, line 200
AppendRow(rs, row) == Append(rs, row)

\* the dict of lines 200-207, and whether line 199 lets it be appended
RowOf(record, acc, affiliations) ==
    [wanted |-> RowWanted(acc.names, acc.affils),
     row    |-> [PubmedID |-> Pmid(record),
                 Title |-> Title(record),
                 PublicationDate |-> PubYear(record),
                 NonAcademicAuthors |-> PyStr(Join(SepText, acc.names)),
                 CompanyAffiliations |-> PyStr(Join(SepText, affiliations)),
                 Email |-> CorrespondingEmail(record, acc.email)]]

Sorted(record, acc) == RowOf(record, acc, AffiliationList(acc.affils))

\* the locals of one pass through the loop body that meets no continue
Extract(record) ==
    Sorted(record,
           AuthorLoop([names |-> <<>>, affils |-> <<>>, email |-> PyStr(NA)],
                      FindAllDeep(record, "Author")))

\* ---------------------------------------------------------------- inputs
\* What the server holds is described field by field (a doc) and turned into
\* the element tree that ET.fromstring hands to the code.
\*   pmid, title, fore, last : PyNone when the element is missing, else its text
\*   pubdate : missing | empty (no children) | noyear (children, no Year) | year
\*   aff     : missing | empty (AffiliationInfo without children)
\*             | other (children, no Affiliation) | text
\*   corr    : missing | bare (CorrespondingAuthor without an Affiliation)
\*             | notext (Affiliation without text) | text
\*   raises  : a statement of the try body raises on this record

\* the text attribute of a parsed element: None for an element without text
XmlText(s) == IF s = <<>> THEN PyNone ELSE PyStr(s)

Leaf(tag, s) == Elem(tag, XmlText(s), <<>>)

Opt(tag, v) == IF v.isNone THEN <<>> ELSE <<Leaf(tag, v.s)>>

AffiliationXml(kind, text) ==
    CASE kind = "missing" -> <<>>
      [] kind = "empty"   -> <<Elem("AffiliationInfo", PyNone, <<>>)>>
      [] kind = "other"   -> <<Elem("AffiliationInfo", PyNone,
                                    <<Leaf("Identifier", <<"1">>)>>)>>
      [] kind = "text"    -> <<Elem("AffiliationInfo", PyNone,
                                    <<Leaf("Affiliation", text)>>)>>

CorrespondingXml(corr) ==
    CASE corr.kind = "missing" -> <<>>
      [] corr.kind = "bare"    -> <<Elem("CorrespondingAuthor", PyNone, <<>>)>>
      [] corr.kind = "notext"  -> <<Elem("CorrespondingAuthor", PyNone,
                                         AffiliationXml("text", <<>>))>>
      [] corr.kind = "text"    -> <<Elem("CorrespondingAuthor", PyNone,
                                         AffiliationXml("text", corr.text))>>

NoCorr == [kind |-> "missing", text |-> <<>>]

\* the CorrespondingAuthor element sits in the first Author of the list
AuthorXml(a, corr) ==
    Elem("Author", PyNone,
         Opt("LastName", a.last) \o Opt("ForeName", a.fore)
         \o AffiliationXml(a.aff, a.afftext) \o CorrespondingXml(corr))

PubDateXml(d) ==
    CASE d.pubdate = "missing" -> <<>>
      [] d.pubdate = "empty"   -> <<Elem("PubDate", PyNone, <<>>)>>
      [] d.pubdate = "noyear"  ->
             <<Elem("PubDate", PyNone,
                    <<Leaf("MedlineDate", <<"2", "0", "2", "0">>)>>)>>
      [] d.pubdate = "year"    ->
             <<Elem("PubDate", PyNone, <<Leaf("Year", d.year)>>)>>

ArticleXml(d) ==
    Elem("PubmedArticle", PyNone,
      <<Elem("MedlineCitation", PyNone,
          Opt("PMID", d.pmid)
          \o <<Elem("Article", PyNone,
                 <<Elem("Journal", PyNone,
                     <<Elem("JournalIssue", PyNone, PubDateXml(d))>>)>>
                 \o Opt("ArticleTitle", d.title)
                 \o <<Elem("AuthorList", PyNone,
                       [i \in 1..Len(d.authors) |->
                          AuthorXml(d.authors[i],
                                    IF i = 1 THEN d.corr ELSE NoCorr)])>>)>>)>>)

\* ET.fromstring of a well-formed fetch body
ET_fromstring_fetch(docs) ==
    Elem("PubmedArticleSet", PyNone, [i \in 1..Len(docs) |-> ArticleXml(docs[i])])

\* ET.fromstring of a well-formed search body
ET_fromstring_search(ids) ==
    Elem("eSearchResult", PyNone,
         <<Leaf("Count", <<"1">>),
           Elem("IdList", PyNone,
                [i \in 1..Len(ids) |-> Elem("Id", ids[i], <<>>)])>>)

\* ---- the texts the inputs are drawn from
TAcme == <<"A", "c", "m", "e", " ", "I", "n", "c">>

TZed == <<"Z", "e", "d", " ", "L", "T", "D", " ", "z", "@", "w", ".", "i", "o">>

TBeta ==
    <<"b", "e", "t", "a", " ", "g", "m", "b", "h", " ", "b", "@", "c", ".", "d", "e">>

TMit == <<"M", "I", "T", " ", "u", "@", "v", ".", "e", "d", "u">>

TSee == <<"s", "e", "e", " ", "c", "@", "d", ".", "o", "r", "g">>

TNoMail == <<"n", "o", " ", "m", "a", "i", "l">>

Y2020 == <<"2", "0", "2", "0">>

Y2021 == <<"2", "0", "2", "1">>

Y2022 == <<"2", "0", "2", "2">>

Author(fore, last, aff, afftext) ==
    [fore |-> fore, last |-> last, aff |-> aff, afftext |-> afftext]

AuthorPool ==
    { Author(PyStr(<<"A">>), PyStr(<<"B">>), "text", TAcme),
      Author(PyStr(<<"C">>), PyNone, "text", TZed),
      Author(PyStr(<<"A">>), PyStr(<<"B">>), "text", TBeta),
      Author(PyStr(<<" ">>), PyNone, "text", TAcme),
      Author(PyNone, PyNone, "text", TZed),
      Author(PyStr(<<"C">>), PyStr(<<"B">>), "text", TMit),
      Author(PyStr(<<"A">>), PyStr(<<"B">>), "missing", <<>>),
      Author(PyStr(<<"A">>), PyStr(<<"B">>), "empty", <<>>),
      Author(PyStr(<<"A">>), PyStr(<<"B">>), "other", <<>>),
      Author(PyStr(<<"A">>), PyStr(<<"B">>), "text", <<>>) }

CorrPool ==
    { NoCorr,
      [kind |-> "bare", text |-> <<>>],
      [kind |-> "notext", text |-> <<>>],
      [kind |-> "text", text |-> TNoMail],
      [kind |-> "text", text |-> TSee] }

Doc(pmid, title, pubdate, year, authors, corr, raises) ==
    [pmid |-> pmid, title |-> title, pubdate |-> pubdate, year |-> year,
     authors |-> authors, corr |-> corr, raises |-> raises]

Company == Author(PyStr(<<"A">>), PyStr(<<"B">>), "text", TAcme)

Academic == Author(PyStr(<<"C">>), PyStr(<<"B">>), "text", TMit)

Nameless == Author(PyStr(<<" ">>), PyNone, "text", TZed)

SeqsUpTo(S, n) == UNION {[1..k -> S] : k \in 0..n}

\* records that differ in identifier, title, publication date and in whether
\* reading them raises
HeaderDocs ==
    { Doc(PyStr(<<"1">>), PyStr(<<"T">>), k[1], k[2], <<Company>>, NoCorr, FALSE) :
        k \in { <<"missing", <<>>>>, <<"empty", <<>>>>, <<"noyear", <<>>>>,
                <<"year", <<>>>>, <<"year", Y2020>>, <<"year", Y2021>> } }
    \cup
    { Doc(PyNone, PyNone, "year", Y2020, <<Academic, Company>>, NoCorr, FALSE),
      Doc(PyStr(<<"2">>), PyStr(<<>>), "year", Y2021, <<Nameless>>, NoCorr, FALSE),
      Doc(PyStr(<<"2">>), PyStr(<<"T">>), "year", Y2020, <<Academic>>, NoCorr, FALSE),
      Doc(PyStr(<<"2">>), PyStr(<<"T">>), "year", Y2020, <<Company>>, NoCorr, TRUE) }

\* one record whose author list and CorrespondingAuthor element vary
AuthorDocs ==
    { Doc(PyStr(<<"1">>), PyStr(<<"T">>), "year", Y2020, as, c, FALSE) :
        as \in SeqsUpTo(AuthorPool, MaxAuthors), c \in CorrPool }

Filters ==
    { [isNone |-> TRUE, items |-> <<>>],
      [isNone |-> FALSE, items |-> <<>>],
      [isNone |-> FALSE, items |-> <<PyStr(Y2020), PyStr(Y2022)>>] }

NoFilter == [isNone |-> TRUE, items |-> <<>>]

\* a response: the request raised (exc), or it has a status and a body that
\* is well-formed XML or not; content is what a well-formed body holds (the
\* Id texts of a search response, the docs of a fetch response)
Response(exc, status, wellFormed, content) ==
    [exc |-> exc, status |-> status, wellFormed |-> wellFormed, content |-> content]

Failures(content) ==
    { Response(TRUE, 0, FALSE, content),
      Response(FALSE, 404, TRUE, content),
      Response(FALSE, 500, FALSE, content),
      Response(FALSE, 204, TRUE, content),
      Response(FALSE, 200, FALSE, content) }

Ok(content) == Response(FALSE, 200, TRUE, content)

IdPool == {PyStr(<<"1">>), PyStr(<<"2">>), PyNone}

IdsFor(docs) ==
    [i \in 1..(IF docs = <<>> THEN 1 ELSE Len(docs)) |->
        IF docs = <<>> \/ docs[i].pmid.isNone THEN PyStr(<<"1">>) ELSE docs[i].pmid]

Net(search, fetch) == [search |-> search, fetch |-> fetch]

\* every outcome of the two requests, over short responses
SearchResponses ==
    Failures(<<PyStr(<<"1">>)>>) \cup {Ok(ids) : ids \in SeqsUpTo(IdPool, MaxIds)}

FetchResponses ==
    Failures(<<>>)
    \cup {Ok(docs) : docs \in SeqsUpTo({d \in HeaderDocs : d.year = Y2020}, 1)}

Init ==
    /\ \/ /\ \E s \in SearchResponses, f \in FetchResponses : net = Net(s, f)
          /\ year_filter = NoFilter
       \/ /\ \E docs \in SeqsUpTo(HeaderDocs, MaxRecords) :
                net = Net(Ok(IdsFor(docs)), Ok(docs))
          /\ year_filter \in Filters
       \/ /\ \E d \in AuthorDocs : net = Net(Ok(IdsFor(<<d>>)), Ok(<<d>>))
          /\ year_filter = NoFilter
    /\ pc = "start"
    /\ calls = <<>>
    /\ id_list = <<>>
    /\ fetch_ids = <<>>
    /\ records = <<>>
    /\ idx = 1
    /\ results = <<>>
    /\ retval = <<>>

\* --------------------------------------------------------------- actions
\* return [] from one of the early exits
ReturnEmpty ==
    /\ pc' = "returned"
    /\ retval' = <<>>

\* lines 85-96
SearchRequest ==
    /\ pc = "start"
    /\ calls' = Append(calls, "esearch")
    /\ IF RequestFails(net.search) \/ StatusRejected(net.search)
       THEN ReturnEmpty
       ELSE pc' = "search_ok" /\ retval' = retval
    /\ UNCHANGED <<net, year_filter, id_list, fetch_ids, records, idx, results>>

\* lines 98-105
SearchParse ==
    /\ pc = "search_ok"
    /\ IF ~net.search.wellFormed
       THEN ReturnEmpty /\ id_list' = id_list
       ELSE pc' = "parsed" /\ id_list' = IdTexts(ET_fromstring_search(net.search.content)) /\ retval' = retval
    /\ UNCHANGED <<net, year_filter, calls, fetch_ids, records, idx, results>>

\* lines 108-121
BuildFetchParams ==
    /\ pc = "parsed"
    /\ IF NoIds(id_list)
       THEN ReturnEmpty /\ fetch_ids' = fetch_ids
       ELSE IF JoinRaises(id_list)
       THEN pc' = "raised" /\ UNCHANGED <<retval, fetch_ids>>
       ELSE pc' = "params" /\ fetch_ids' = JoinIds(id_list) /\ retval' = retval
    /\ UNCHANGED <<net, year_filter, calls, id_list, records, idx, results>>

\* lines 123-135
FetchRequest ==
    /\ pc = "params"
    /\ calls' = Append(calls, "efetch")
    /\ IF RequestFails(net.fetch) \/ StatusRejected(net.fetch)
       THEN ReturnEmpty
       ELSE pc' = "fetch_ok" /\ retval' = retval
    /\ UNCHANGED <<net, year_filter, id_list, fetch_ids, records, idx, results>>

\* lines 137-145
FetchParse ==
    /\ pc = "fetch_ok"
    /\ IF ~net.fetch.wellFormed
       THEN ReturnEmpty /\ UNCHANGED <<records, results, idx>>
       ELSE /\ pc' = "loop"
            /\ records' = FindAllDeep(ET_fromstring_fetch(net.fetch.content), "PubmedArticle")
            /\ results' = <<>>
            /\ idx' = 1
            /\ retval' = retval
    /\ UNCHANGED <<net, year_filter, calls, id_list, fetch_ids>>

\* what one pass of the loop body does with the record: the except clause of
\* line 212, the continue of line 161, the append of line 200, or nothing
Outcome(raises, yf, record, x) ==
    IF raises THEN "error"
    ELSE IF YearSkips(yf, PubYear(record)) THEN "skipped"
    ELSE IF x.wanted THEN "row"
    ELSE "none"

\* the except clause dropping what was collected
AfterErrorReset(rs) == <<>>

\* results after the except clause of lines 212-214
AfterError(rs) == rs

\* results after one pass of the loop body
ResultsAfter(rs, outcome, x) ==
    CASE outcome = "error" -> AfterError(rs)
      [] outcome = "row"   -> AppendRow(rs, x.row)
      [] OTHER             -> rs

HandleRecord(rs, raises, yf, record, x) ==
    ResultsAfter(rs, Outcome(raises, yf, record, x), x)

\* one pass of the for loop, lines 151-214
ProcessRecord ==
    /\ pc = "loop"
    /\ idx <= Len(records)
    /\ results' = HandleRecord(results, net.fetch.content[idx].raises, year_filter,
                               records[idx], Extract(records[idx]))
    /\ idx' = idx + 1
    /\ UNCHANGED <<net, year_filter, pc, calls, id_list, fetch_ids, records, retval>>

\* return results, line 220
Return ==
    /\ pc = "loop"
    /\ idx > Len(records)
    /\ pc' = "returned"
    /\ retval' = results
    /\ UNCHANGED <<net, year_filter, calls, id_list, fetch_ids, records, idx,
                   results>>

Next ==
    \/ SearchRequest
    \/ SearchParse
    \/ BuildFetchParams
    \/ FetchRequest
    \/ FetchParse
    \/ ProcessRecord
    \/ Return

Spec == Init /\ [][Next]_vars

\* ---------------------------------------------------------------- claims
\* The claims speak of the records as the server holds them (the docs), the
\* code of the element trees parsed from them.
Docs == net.fetch.content

\* a step of ProcessRecord, on the record at position idx
Handling == pc = "loop" /\ idx' = idx + 1

Current == Docs[idx]

Appends == Len(results') = Len(results) + 1

NewRow == results'[Len(results')]

\* the loop ran over a non-empty response and the function returned
Finished == pc = "returned" /\ records # <<>>

IsPrefix(s, u) == Len(s) <= Len(u) /\ SubSeq(u, 1, Len(s)) = s

\* two characters that differ at most in case
SameLetter(c, d) ==
    c = d \/ \E i \in 1..Len(UpperCase) : {c, d} = {UpperCase[i], LowerCase[i]}

\* the text holds keyword k right after offset i, whatever the case
KeywordAt(text, k, i) ==
    /\ i + Len(k) <= Len(text)
    /\ \A j \in 1..Len(k) : SameLetter(text[i + j], k[j])

MentionsKeyword(text) ==
    \E n \in 1..Len(PHARMA_KEYWORDS), i \in 0..Len(text) :
        KeywordAt(text, PHARMA_KEYWORDS[n], i)

\* the author has an affiliation that names a company
Commercial(a) == a.aff = "text" /\ MentionsKeyword(a.afftext)

TextOr(v) == IF v.isNone THEN <<>> ELSE v.s

\* ForeName, a space, LastName, trimmed
FullName(a) == Strip(TextOr(a.fore) \o <<" ">> \o TextOr(a.last))

HasCommercial(doc) == \E i \in 1..Len(doc.authors) : Commercial(doc.authors[i])

HasNamedCommercial(doc) ==
    \E i \in 1..Len(doc.authors) :
        Commercial(doc.authors[i]) /\ FullName(doc.authors[i]) # <<>>

FilterOn == ~year_filter.isNone /\ year_filter.items # <<>>

YearListed(doc) ==
    /\ doc.pubdate = "year"
    /\ \E i \in 1..Len(year_filter.items) : year_filter.items[i] = PyStr(doc.year)

PassesFilter(doc) == ~FilterOn \/ YearListed(doc)

SearchSucceeded ==
    ~net.search.exc /\ net.search.status = 200 /\ net.search.wellFormed

FetchSucceeded ==
    ~net.fetch.exc /\ net.fetch.status = 200 /\ net.fetch.wellFormed

\* C1: no exception escapes fetch_pubmed_data (whatever the two requests
\* answer, Id elements without text included), and the returned list is empty
\* whenever the search stage or the fetch stage failed.
C1_NoExceptionEscapes ==
    /\ pc # "raised"
    /\ (pc = "returned" /\ (~SearchSucceeded \/ ~FetchSucceeded)) => retval = <<>>

\* C2 as stated: a record that passes the year filter and raises nothing gets
\* a row iff one of its authors has an affiliation naming a keyword, whatever
\* the names of the authors.
C2_RowIffCommercialAffiliation ==
    [][(Handling /\ ~Current.raises /\ PassesFilter(Current))
         => (Appends <=> HasCommercial(Current))]_vars

\* C2 amended: a record that passes the year filter and raises nothing gets a
\* row iff one of its authors has an affiliation naming a keyword and a
\* trimmed name that is not empty; otherwise results is left as it is.
C2_RowIffNamedCommercialAuthor ==
    [][(Handling /\ ~Current.raises /\ PassesFilter(Current))
         => /\ Appends <=> HasNamedCommercial(Current)
            /\ ~HasNamedCommercial(Current) => results' = results]_vars

\* a record whose only commercial author has no name was handled: no row
C2_Witness ==
    /\ Finished
    /\ Len(Docs) = 1
    /\ ~Docs[1].raises /\ PassesFilter(Docs[1])
    /\ HasCommercial(Docs[1]) /\ ~HasNamedCommercial(Docs[1])
    /\ retval = <<>>

\* C3: with a non-empty year_filter every row carries a year of the filter
\* and a record whose year is not one of the filter strings adds nothing,
\* whoever its authors are; with None or an empty list no record is dropped
\* for its year.
C3_YearFilter ==
    [][/\ FilterOn =>
            \A k \in 1..Len(results') :
                \E i \in 1..Len(year_filter.items) :
                    results'[k].PublicationDate = year_filter.items[i]
       /\ (Handling /\ FilterOn /\ ~YearListed(Current)) => results' = results
       /\ (Handling /\ ~FilterOn /\ ~Current.raises /\ HasNamedCommercial(Current))
            => Appends]_vars

\* a company record of 2021 was dropped by the filter 2020, 2022 while a
\* record of 2020 made it into the list
C3_Witness ==
    /\ Finished
    /\ FilterOn
    /\ \E k \in 1..Len(Docs) :
          /\ Docs[k].pubdate = "year" /\ Docs[k].year = Y2021
          /\ ~Docs[k].raises /\ HasNamedCommercial(Docs[k])
    /\ Len(retval) = 1
    /\ retval[1].PublicationDate = PyStr(Y2020)

\* the affiliation texts of the commercial authors of a record
CompanyTexts(doc) ==
    {doc.authors[i].afftext : i \in {j \in 1..Len(doc.authors) : Commercial(doc.authors[j])}}

Ascending(list) == \A i \in 1..(Len(list) - 1) : StrLess(list[i], list[i + 1])

\* C4: the affiliations joined into the Company Affiliation(s) field of a row
\* are in ascending order, none twice, and are exactly the affiliation texts
\* of the commercial authors of the record.
C4_AffiliationsSortedDistinctExact ==
    [][(Handling /\ Appends) =>
         \E list \in [1..Cardinality(CompanyTexts(Current)) -> CompanyTexts(Current)] :
            /\ Ascending(list)
            /\ Range(list) = CompanyTexts(Current)
            /\ NewRow.CompanyAffiliations = PyStr(Join(SepText, list))]_vars

\* the authors come with the affiliations beta gmbh and Zed LTD, in this
\* order; the row lists Zed LTD first
C4_Witness ==
    /\ Finished
    /\ Len(Docs) = 1 /\ Len(Docs[1].authors) = 2
    /\ Docs[1].authors[1].afftext = TBeta
    /\ Docs[1].authors[2].afftext = TZed
    /\ Len(retval) = 1
    /\ retval[1].CompanyAffiliations = PyStr(TZed \o SepText \o TBeta)

\* what the row shows for an identifier or title that is missing or empty
Shown(v) == IF v.isNone \/ v.s = <<>> THEN PyStr(NA) ELSE v

\* C5: the list only grows at its end, by at most one row per record and that
\* row is the one of the record being handled; later records leave the rows
\* collected so far in place, and the list returned is the list collected.
C5_OrderPreservingSubsequence ==
    [][/\ IsPrefix(results, results')
       /\ Len(results') <= Len(results) + 1
       /\ results' # results =>
            /\ Handling
            /\ NewRow.PubmedID = Shown(Current.pmid)
            /\ NewRow.Title = Shown(Current.title)
       /\ (pc = "loop" /\ pc' = "returned") => retval' = results]_vars

\* two records gave two rows, in the order of the records
C5_Witness ==
    /\ Finished
    /\ Len(Docs) = 2
    /\ Len(retval) = 2
    /\ retval[1].PubmedID # retval[2].PubmedID
    /\ retval[1].PubmedID = Shown(Docs[1].pmid)
    /\ retval[2].PubmedID = Shown(Docs[2].pmid)

\* C6: efetch is requested at most once, and only after esearch answered with
\* status 200 and a well-formed body holding at least one Id; when the search
\* fails or finds no Id the function returns the empty list and efetch was
\* never requested.
C6_FetchOnlyAfterSuccessfulSearch ==
    /\ calls \in {<<>>, <<"esearch">>, <<"esearch", "efetch">>}
    /\ (Len(calls) = 2) => (SearchSucceeded /\ net.search.content # <<>>)
    /\ (pc = "returned" /\ (~SearchSucceeded \/ net.search.content = <<>>))
         => (retval = <<>> /\ calls = <<"esearch">>)

\* the search answered well with no Id: returned, one request only
C6_Witness ==
    /\ pc = "returned"
    /\ SearchSucceeded /\ net.search.content = <<>>
    /\ calls = <<"esearch">>
    /\ retval = <<>>

\* the records of the response without those on which the loop body raises
Survivors ==
    LET keep == SelectSeq([i \in 1..Len(records) |-> i], LAMBDA i : ~Docs[i].raises)
    IN  [k \in 1..Len(keep) |-> records[keep[k]]]

\* the loop run from an empty list over records none of which raises
ReferenceRun(recs) ==
    LET after[i \in 0..Len(recs)] ==
            IF i = 0 THEN <<>>
            ELSE HandleRecord(after[i - 1], FALSE, year_filter, recs[i], Extract(recs[i]))
    IN  after[Len(recs)]

\* C7: a record on which the loop body raises leaves the rows collected so
\* far as they are and the loop goes on; the list returned is the one that
\* the response without the raising records gives.
C7_ErrorDropsOnlyThatRecord ==
    [][/\ (Handling /\ Current.raises) => (results' = results /\ pc' = "loop")
       /\ (pc = "loop" /\ pc' = "returned") => retval' = ReferenceRun(Survivors)]_vars

\* a row was collected, then the second record raised; the row is returned
C7_Witness ==
    /\ Finished
    /\ Len(Docs) = 2
    /\ ~Docs[1].raises /\ Docs[2].raises
    /\ Len(retval) = 1

\* the names of the commercial authors that have one, in record order
CompanyNames(doc) ==
    LET named == SelectSeq(doc.authors,
                           LAMBDA a : Commercial(a) /\ FullName(a) # <<>>)
    IN  [i \in 1..Len(named) |-> FullName(named[i])]

\* C8: the names joined into the Non-academic Author(s) field of a row are
\* the trimmed names of the commercial authors that have a name, in record
\* order, a repeated name kept; no other author contributes.
C8_NamesInRecordOrder ==
    [][(Handling /\ Appends) =>
         NewRow.NonAcademicAuthors = PyStr(Join(SepText, CompanyNames(Current)))]_vars

\* two commercial authors of the same name: the name is listed twice
C8_Witness ==
    /\ Finished
    /\ Len(Docs) = 1 /\ Len(Docs[1].authors) = 2
    /\ Len(retval) = 1
    /\ retval[1].NonAcademicAuthors =
           PyStr(<<"A", " ", "B", ";", " ", "A", " ", "B">>)

\* the commercial authors whose affiliation holds an e-mail address
WithMail(doc) ==
    {i \in 1..Len(doc.authors) :
        Commercial(doc.authors[i]) /\ ReSearchEmail(doc.authors[i].afftext) # <<>>}

CorrHasMail(doc) == doc.corr.kind = "text" /\ ReSearchEmail(doc.corr.text) # <<>>

ExpectedEmail(doc) ==
    IF CorrHasMail(doc) THEN PyStr(ReSearchEmail(doc.corr.text)[1])
    ELSE IF WithMail(doc) # {}
    THEN PyStr(ReSearchEmail(doc.authors[MaxOf(WithMail(doc))].afftext)[1])
    ELSE PyStr(NA)

C10_FieldsDefaultToNA ==
    [][(Handling /\ Appends) =>
         /\ ~NewRow.PubmedID.isNone
         /\ ~NewRow.Title.isNone
         /\ ~NewRow.PublicationDate.isNone
         /\ Current.pmid.isNone => NewRow.PubmedID = PyStr(NA)
         /\ Current.title.isNone => NewRow.Title = PyStr(NA)
         /\ Current.pubdate # "year" => NewRow.PublicationDate = PyStr(NA)]_vars

====
